---- MODULE Spec2Model ----
(***************************************************************************)
(* A model of src/src/server.py: the session store                         *)
(* (conversation_contexts), the token budget estimator                     *)
(* (estimate_response_tokens), the streaming controller                    *)
(* (generate_sse_stream) and the sync controller (generate_response_sync). *)
(*                                                                         *)
(* Text is a sequence of one-character strings, so that lower(), strip(),  *)
(* split(), replace() and substring tests are computed as Python computes  *)
(* them.                                                                   *)
(***************************************************************************)
EXTENDS Integers, Sequences, FiniteSets, TLC

(***************************************************************************)
(* Bounds of the model.                                                    *)
(***************************************************************************)
\* Requests the service receives in one behaviour.
MaxReq == 2
\* Fragments the engine produces for one streaming call.
MaxFrags == 2

(***************************************************************************)
(* Program constants.                                                      *)
(***************************************************************************)
MAX_CONTEXT_LENGTH == 100

MODEL_NOT_LOADED ==
    <<"M", "o", "d", "e", "l", " ", "n", "o", "t", " ", "l", "o", "a", "d", "e", "d", ".", " ", "P", "l", "e", "a", "s", "e", " ", "c", "h", "e", "c", "k", " ", "s", "e", "r", "v", "e", "r", " ", "l", "o", "g", "s", ".">>
CONTEXT_CLEARED ==
    <<"C", "o", "n", "t", "e", "x", "t", " ", "c", "l", "e", "a", "r", "e", "d", ".", " ", "S", "t", "a", "r", "t", "i", "n", "g", " ", "f", "r", "e", "s", "h", " ", "c", "o", "n", "v", "e", "r", "s", "a", "t", "i", "o", "n", ".">>
SYNC_FALLBACK ==
    <<"I", "'", "m", " ", "h", "e", "r", "e", " ", "t", "o", " ", "h", "e", "l", "p", "!", " ", "W", "h", "a", "t", " ", "w", "o", "u", "l", "d", " ", "y", "o", "u", " ", "l", "i", "k", "e", " ", "t", "o", " ", "k", "n", "o", "w", "?">>
\* '<<NEWLINE>>'
NEWLINE_TOKEN == <<"<", "<", "N", "E", "W", "L", "I", "N", "E", ">", ">">>
\* "clear context"
CLEAR_COMMAND == <<"c", "l", "e", "a", "r", " ", "c", "o", "n", "t", "e", "x", "t">>

code_keywords ==
    { <<"c", "o", "d", "e">>,
      <<"f", "u", "n", "c", "t", "i", "o", "n">>,
      <<"s", "c", "r", "i", "p", "t">>,
      <<"p", "r", "o", "g", "r", "a", "m">>,
      <<"i", "m", "p", "l", "e", "m", "e", "n", "t">>,
      <<"d", "e", "b", "u", "g">>,
      <<"r", "e", "f", "a", "c", "t", "o", "r">>,
      <<"c", "l", "a", "s", "s">>,
      <<"m", "e", "t", "h", "o", "d">> }
explain_keywords ==
    { <<"e", "x", "p", "l", "a", "i", "n">>,
      <<"h", "o", "w", " ", "t", "o">>,
      <<"t", "u", "t", "o", "r", "i", "a", "l">>,
      <<"g", "u", "i", "d", "e">>,
      <<"s", "t", "e", "p", "s">>,
      <<"w", "a", "l", "k", "t", "h", "r", "o", "u", "g", "h">>,
      <<"d", "e", "t", "a", "i", "l">> }
list_keywords ==
    { <<"l", "i", "s", "t">>,
      <<"e", "x", "a", "m", "p", "l", "e", "s">>,
      <<"w", "a", "y", "s">>,
      <<"m", "e", "t", "h", "o", "d", "s">>,
      <<"t", "y", "p", "e", "s">>,
      <<"t", "a", "b", "l", "e">>,
      <<"c", "o", "m", "p", "a", "r", "e">>,
      <<"o", "p", "t", "i", "o", "n", "s">> }
creative_keywords ==
    { <<"s", "t", "o", "r", "y">>,
      <<"w", "r", "i", "t", "e">>,
      <<"c", "r", "e", "a", "t", "i", "v", "e">>,
      <<"p", "o", "e", "m">>,
      <<"e", "s", "s", "a", "y">>,
      <<"n", "a", "r", "r", "a", "t", "i", "v", "e">>,
      <<"f", "i", "c", "t", "i", "o", "n">> }
analysis_keywords ==
    { <<"a", "n", "a", "l", "y", "z", "e">>,
      <<"r", "e", "v", "i", "e", "w">>,
      <<"a", "s", "s", "e", "s", "s", "m", "e", "n", "t">>,
      <<"e", "v", "a", "l", "u", "a", "t", "i", "o", "n">>,
      <<"r", "e", "s", "e", "a", "r", "c", "h">>,
      <<"s", "t", "u", "d", "y">> }
qa_keywords ==
    { <<"w", "h", "a", "t">>,
      <<"w", "h", "y">>,
      <<"h", "o", "w">>,
      <<"w", "h", "e", "n">>,
      <<"w", "h", "e", "r", "e">>,
      <<"w", "h", "i", "c", "h">>,
      <<"w", "h", "o">> }

(***************************************************************************)
(* Python's str operations, on sequences of characters.                    *)
(***************************************************************************)
UPPERCASE == <<"A", "B", "C", "D", "E", "F", "G", "H", "I", "J", "K", "L", "M",
               "N", "O", "P", "Q", "R", "S", "T", "U", "V", "W", "X", "Y", "Z">>
LOWERCASE == <<"a", "b", "c", "d", "e", "f", "g", "h", "i", "j", "k", "l", "m",
               "n", "o", "p", "q", "r", "s", "t", "u", "v", "w", "x", "y", "z">>
ToLower ==
    [c \in {UPPERCASE[i] : i \in 1..Len(UPPERCASE)} |->
        LOWERCASE[CHOOSE i \in 1..Len(UPPERCASE) : UPPERCASE[i] = c]]

\* The characters str.split() and str.strip() take for whitespace.
WHITESPACE == {" ", "\n", "\t", "\r"}

Min(S) == CHOOSE x \in S : \A y \in S : x <= y
Max(S) == CHOOSE x \in S : \A y \in S : x >= y

\* s.lower()
str_lower(s) ==
    [i \in 1..Len(s) |-> IF s[i] \in DOMAIN ToLower THEN ToLower[s[i]] ELSE s[i]]

\* k in s
str_contains(s, k) ==
    \E i \in 1..(Len(s) - Len(k) + 1) : \A j \in 1..Len(k) : s[i + j - 1] = k[j]

\* s.startswith(k)
str_startswith(s, k) ==
    /\ Len(k) <= Len(s)
    /\ \A j \in 1..Len(k) : s[j] = k[j]

\* len(s.split()): the maximal runs of non-whitespace characters.
str_split_len(s) ==
    Cardinality({i \in 1..Len(s) :
                    /\ s[i] \notin WHITESPACE
                    /\ (i = 1 \/ s[i - 1] \in WHITESPACE)})

str_rstrip(s) ==
    LET keep == {i \in 1..Len(s) : s[i] \notin WHITESPACE}
    IN  IF keep = {} THEN <<>> ELSE SubSeq(s, 1, Max(keep))
\* s.strip(): whitespace removed at both ends.
str_strip(s) ==
    LET keep == {i \in 1..Len(s) : s[i] \notin WHITESPACE}
    IN  IF keep = {} THEN <<>> ELSE SubSeq(s, Min(keep), Max(keep))

RECURSIVE str_replace_newline(_)
\* s.replace('\n', '<<NEWLINE>>')
str_replace_newline(s) ==
    IF s = <<>> THEN <<>>
    ELSE (IF Head(s) = "\n" THEN NEWLINE_TOKEN ELSE <<Head(s)>>)
             \o str_replace_newline(Tail(s))

\* any(keyword in s for keyword in keywords)
any_in(s, keywords) == \E k \in keywords : str_contains(s, k)
\* any(s.startswith(keyword) for keyword in keywords)
any_startswith(s, keywords) == \E k \in keywords : str_startswith(s, k)

(***************************************************************************)
(* estimate_response_tokens                                                *)
(***************************************************************************)
length_bonus_cumulative(prompt_length) ==
    (IF prompt_length > 200 THEN 1024 ELSE 0)
    + (IF prompt_length > 100 THEN 768 ELSE 0)
    + (IF prompt_length > 50 THEN 512 ELSE 0)
    + (IF prompt_length > 20 THEN 256 ELSE 0)
\* if prompt_length > 200: ... elif ... elif ... elif ...
length_bonus(prompt_length) ==
    IF prompt_length > 200 THEN 1024
    ELSE IF prompt_length > 100 THEN 768
    ELSE IF prompt_length > 50 THEN 512
    ELSE IF prompt_length > 20 THEN 256
    ELSE 0

\* if char_length > 2000: ... elif char_length > 1000: ...
char_bonus(char_length) ==
    IF char_length > 2000 THEN 1024
    ELSE IF char_length > 1000 THEN 512
    ELSE 0

keyword_bonus_explain_768(prompt_lower) ==
    (IF any_in(prompt_lower, code_keywords) THEN 1536 ELSE 0)
    + (IF any_in(prompt_lower, explain_keywords) THEN 768 ELSE 0)
    + (IF any_in(prompt_lower, list_keywords) THEN 768 ELSE 0)
    + (IF any_in(prompt_lower, creative_keywords) THEN 1024 ELSE 0)
    + (IF any_in(prompt_lower, analysis_keywords) THEN 1024 ELSE 0)
    + (IF any_startswith(prompt_lower, qa_keywords) THEN 512 ELSE 0)
\* The six independent `if any(...)` statements, each adding to base_tokens.
keyword_bonus(prompt_lower) ==
    (IF any_in(prompt_lower, code_keywords) THEN 1536 ELSE 0)
    + (IF any_in(prompt_lower, explain_keywords) THEN 1024 ELSE 0)
    + (IF any_in(prompt_lower, list_keywords) THEN 768 ELSE 0)
    + (IF any_in(prompt_lower, creative_keywords) THEN 1024 ELSE 0)
    + (IF any_in(prompt_lower, analysis_keywords) THEN 1024 ELSE 0)
    + (IF any_startswith(prompt_lower, qa_keywords) THEN 512 ELSE 0)

final_tokens_no_cap(base_tokens) == Max({base_tokens, 256})
\* min(max(base_tokens, 256), 4096)
final_tokens(base_tokens) == Min({Max({base_tokens, 256}), 4096})

estimate_response_tokens(prompt) ==
    final_tokens(512
                 + length_bonus(str_split_len(prompt))
                 + char_bonus(Len(prompt))
                 + keyword_bonus(str_lower(prompt)))

(***************************************************************************)
(* The session store: conversation_contexts maps a session id to a         *)
(* deque(maxlen=MAX_CONTEXT_LENGTH) of turns.  A turn is the stored string *)
(* (text); role and req are history fields naming the kind of turn and the *)
(* request that appended it, which no action reads.                        *)
(***************************************************************************)
\* f"User: {user_prompt}"
user_turn(r, user_prompt) ==
    [text |-> <<"U", "s", "e", "r", ":", " ">> \o user_prompt, role |-> "user", req |-> r]
\* f"Assistant: {response}"
assistant_turn(r, response) ==
    [text |-> <<"A", "s", "s", "i", "s", "t", "a", "n", "t", ":", " ">> \o response, role |-> "assistant", req |-> r]

deque_append_unbounded(d, x) == Append(d, x)
\* deque.append on a deque(maxlen=MAX_CONTEXT_LENGTH): a full deque drops its
\* oldest element.
deque_append(d, x) ==
    IF Len(d) >= MAX_CONTEXT_LENGTH THEN Tail(d) \o <<x>> ELSE Append(d, x)

new_context_clears_all(contexts, session_id) == [k \in {session_id} |-> <<>>]
\* conversation_contexts[session_id] = deque(maxlen=MAX_CONTEXT_LENGTH)
new_context(contexts, session_id) ==
    [k \in DOMAIN contexts \cup {session_id} |->
        IF k = session_id THEN <<>> ELSE contexts[k]]

\* if session_id not in conversation_contexts: ... = deque(...)
ensure_context(contexts, session_id) ==
    IF session_id \in DOMAIN contexts THEN contexts
    ELSE new_context(contexts, session_id)

\* conversation_contexts[session_id].append(turn)
append_turn(contexts, session_id, turn) ==
    [contexts EXCEPT ![session_id] = deque_append(@, turn)]

RECURSIVE join_lines(_)
\* "\n".join(list(conversation_contexts[session_id])), computed by halves.
join_lines(turns) ==
    IF turns = <<>> THEN <<>>
    ELSE IF Len(turns) = 1 THEN turns[1].text
    ELSE LET half == Len(turns) \div 2
         IN  join_lines(SubSeq(turns, 1, half)) \o <<"\n">>
                 \o join_lines(SubSeq(turns, half + 1, Len(turns)))

\* The two system preambles, each kept as one opaque element.
STREAM_SYSTEM == <<"<|system|>...final answer without thinking tags.<|end|>">>
SYNC_SYSTEM ==
    <<"<|system|>...there MUST ALWAYS be an answer outside the thinking tags...<|end|>">>
\* "\nAssistant:"
ASSISTANT_CUE == <<"\n", "A", "s", "s", "i", "s", "t", "a", "n", "t", ":">>

\* f"{system}\n{context}\nAssistant:"
full_prompt(system, turns) ==
    system \o <<"\n">> \o join_lines(turns) \o ASSISTANT_CUE

is_clear_context_exact(user_prompt) == user_prompt = CLEAR_COMMAND
\* "clear context" in user_prompt.lower()
is_clear_context(user_prompt) ==
    str_contains(str_lower(user_prompt), CLEAR_COMMAND)

(***************************************************************************)
(* The frames generate_sse_stream yields.                                  *)
(***************************************************************************)
\* json.dumps({"error": ...}) + "\n"
raw_error_frame(message) == [event |-> "raw", key |-> "error", text |-> message]
\* f"data: {json.dumps({'chunk': ...})}\n\n"
chunk_frame(text) == [event |-> "message", key |-> "chunk", text |-> text]
\* "event: done\ndata: {}\n\n"
done_frame == [event |-> "done", key |-> "", text |-> <<>>]
error_frame_without_detail(message) ==
    [event |-> "message", key |-> "error", text |-> <<>>]
\* f"data: {json.dumps({'error': str(e)})}\n\n"
error_frame(message) == [event |-> "message", key |-> "error", text |-> message]
\* "event: error\ndata: {}\n\n"
error_end_frame == [event |-> "error", key |-> "", text |-> <<>>]

(***************************************************************************)
(* Inputs of the model.                                                    *)
(***************************************************************************)
Requests == 1..MaxReq
\* POST /generate/ and POST /generate-sync/
Endpoints == {"generate", "generate-sync"}
\* "hi" and "pls Clear Context now"
Prompts == { <<"h", "i">>, <<"p", "l", "s", " ", "C", "l", "e", "a", "r", " ", "C", "o", "n", "t", "e", "x", "t", " ", "n", "o", "w">> }
\* session_id of the body: absent, or given.
SessionIdInputs == { <<>>, <<"s1">> }
\* max_tokens of the body: absent, or given.
MaxTokensInputs == { <<>>, <<0>>, <<64>> }
\* What the engine may produce: fragments of a stream, one-shot texts, failures.
Fragments == { <<"H", "i">>, <<"\n">>, <<" ", "t", "h", "e", "r", "e">> }
Completions == { <<" ", "H", "i", "\n", " ", "t", "h", "e", "r", "e", " ", "\n">>, <<" ", "\n">> }
EngineErrors == { <<"b", "o", "o", "m">> }

DEFAULT_SESSION_ID == "default"
\* class InputText(BaseModel): a missing session_id is "default", a missing
\* max_tokens is None (<<>>).
InputText(prompt, session_id, max_tokens) ==
    [prompt |-> prompt,
     session_id |-> IF session_id = <<>> THEN DEFAULT_SESSION_ID ELSE session_id[1],
     max_tokens |-> max_tokens]

NoRequest == [endpoint |-> "none", given_session_id |-> <<>>,
              input |-> InputText(<<>>, <<>>, <<>>)]
NoResult == [kind |-> "none", text |-> <<>>]

VARIABLES
    started,                \* startup_event has run
    generator,              \* the global generator: "None" or "Llama"
    conversation_contexts,  \* the global dict of deques
    request,                \* per request: the endpoint and the parsed body
    pc,                     \* per request: where its handler stands
    full_response,          \* per streaming request: the accumulator
    sent,                   \* per streaming request: the frames yielded so far
    result,                 \* per sync request: what the handler returned or raised
    engine_calls,           \* per request: the calls it made to the engine
    produced,               \* per request: what the engine gave back (fragments, or the one-shot text)
    est_prompt,             \* estimator harness: the text
    est_tokens              \* estimator harness: <<>> or <<the estimate>>

vars == <<started, generator, conversation_contexts, request, pc, full_response,
          sent, result, engine_calls, produced, est_prompt, est_tokens>>
store_vars == <<started, generator, conversation_contexts>>
request_vars == <<request, pc, full_response, sent, result, engine_calls, produced>>
est_vars == <<est_prompt, est_tokens>>

NoRequests ==
    /\ request = [r \in Requests |-> NoRequest]
    /\ pc = [r \in Requests |-> "idle"]
    /\ full_response = [r \in Requests |-> <<>>]
    /\ sent = [r \in Requests |-> <<>>]
    /\ result = [r \in Requests |-> NoResult]
    /\ engine_calls = [r \in Requests |-> <<>>]
    /\ produced = [r \in Requests |-> <<>>]

\* conversation_contexts: Dict[str, deque] = {}
EmptyContexts == [k \in {} |-> <<>>]

\* The module-level state: generator = None, conversation_contexts = {}.
Init ==
    /\ started = FALSE
    /\ generator = "None"
    /\ conversation_contexts = EmptyContexts
    /\ NoRequests
    /\ est_prompt = <<>>
    /\ est_tokens = <<>>

\* startup_event: generator = await load_llama_cpp_model(), which returns the
\* model or None.
startup_event ==
    /\ ~started
    /\ started' = TRUE
    /\ generator' \in {"None", "Llama"}
    /\ UNCHANGED <<conversation_contexts, request_vars, est_vars>>

\* A request arrives and its body is parsed; the body's fields are drawn from
\* the given sets.
ArriveFrom(r, endpoints, prompts, session_ids, budgets) ==
    /\ started
    /\ pc[r] = "idle"
    /\ \A q \in 1..(r - 1) : pc[q] # "idle"
    /\ \E e \in endpoints, p \in prompts, s \in session_ids, m \in budgets :
         request' = [request EXCEPT ![r] =
                        [endpoint |-> e, given_session_id |-> s,
                         input |-> InputText(p, s, m)]]
    /\ pc' = [pc EXCEPT ![r] = "start"]
    /\ UNCHANGED <<store_vars, full_response, sent, result, engine_calls, produced,
                   est_vars>>

Arrive(r) == ArriveFrom(r, Endpoints, Prompts, SessionIdInputs, MaxTokensInputs)

(***************************************************************************)
(* generate_sse_stream.  The generator runs from one suspension point to   *)
(* the next in one step: it suspends at every yield and at                 *)
(* await asyncio.sleep(0).                                                 *)
(***************************************************************************)
Input(r) == request[r].input
IsStream(r) == request[r].endpoint = "generate"
IsSync(r) == request[r].endpoint = "generate-sync"

\* if max_tokens is None: max_tokens = estimate_response_tokens(user_prompt)
stream_max_tokens(max_tokens, user_prompt) ==
    IF max_tokens = <<>> THEN estimate_response_tokens(user_prompt) ELSE max_tokens[1]

\* max_tokens = input_text.max_tokens or estimate_response_tokens(user_prompt)
sync_max_tokens(max_tokens, user_prompt) ==
    IF max_tokens = <<>> \/ max_tokens[1] = 0
    THEN estimate_response_tokens(user_prompt)
    ELSE max_tokens[1]

StreamUnavailable_then_done(r) ==
    /\ pc[r] = "start" /\ IsStream(r)
    /\ generator = "None"
    /\ sent' = [sent EXCEPT ![r] = <<raw_error_frame(MODEL_NOT_LOADED), done_frame>>]
    /\ pc' = [pc EXCEPT ![r] = "y_unavailable"]
    /\ UNCHANGED <<store_vars, request, full_response, result, engine_calls,
                   produced, est_vars>>
\* if generator is None: yield the error line; return
StreamUnavailable(r) ==
    /\ pc[r] = "start" /\ IsStream(r)
    /\ generator = "None"
    /\ sent' = [sent EXCEPT ![r] = Append(@, raw_error_frame(MODEL_NOT_LOADED))]
    /\ pc' = [pc EXCEPT ![r] = "y_unavailable"]
    /\ UNCHANGED <<store_vars, request, full_response, result, engine_calls,
                   produced, est_vars>>

StreamClear_cancelling(r) ==
    /\ pc[r] = "start" /\ IsStream(r)
    /\ generator # "None"
    /\ is_clear_context(Input(r).prompt)
    /\ conversation_contexts' = new_context(conversation_contexts, Input(r).session_id)
    /\ sent' = [sent EXCEPT ![r] = Append(@, chunk_frame(CONTEXT_CLEARED))]
    /\ pc' = [q \in Requests |->
                IF q = r THEN "y_cleared"
                ELSE IF pc[q] \in {"y_chunk", "sleep"}
                          /\ Input(q).session_id = Input(r).session_id
                     THEN "finished"
                ELSE pc[q]]
    /\ UNCHANGED <<started, generator, request, full_response, result,
                   engine_calls, produced, est_vars>>
\* if "clear context" in user_prompt.lower(): replace the deque, yield the
\* confirmation chunk
StreamClear(r) ==
    /\ pc[r] = "start" /\ IsStream(r)
    /\ generator # "None"
    /\ is_clear_context(Input(r).prompt)
    /\ conversation_contexts' = new_context(conversation_contexts, Input(r).session_id)
    /\ sent' = [sent EXCEPT ![r] = Append(@, chunk_frame(CONTEXT_CLEARED))]
    /\ pc' = [pc EXCEPT ![r] = "y_cleared"]
    /\ UNCHANGED <<started, generator, request, full_response, result,
                   engine_calls, produced, est_vars>>

\* resumed after the confirmation chunk: yield "event: done"
StreamClearDone(r) ==
    /\ pc[r] = "y_cleared"
    /\ sent' = [sent EXCEPT ![r] = Append(@, done_frame)]
    /\ pc' = [pc EXCEPT ![r] = "y_done"]
    /\ UNCHANGED <<store_vars, request, full_response, result, engine_calls,
                   produced, est_vars>>

StreamChunk_without_suspending(r, contexts) ==
    \E token \in Fragments, next_token \in Fragments :
        /\ Len(produced[r]) + 1 < MaxFrags
        /\ produced' = [produced EXCEPT ![r] = Append(Append(@, token), next_token)]
        /\ full_response' = [full_response EXCEPT ![r] = (@ \o token) \o next_token]
        /\ sent' = [sent EXCEPT ![r] =
                       Append(Append(@, chunk_frame(str_replace_newline(token))),
                              chunk_frame(str_replace_newline(next_token)))]
        /\ conversation_contexts' = contexts
        /\ pc' = [pc EXCEPT ![r] = "y_chunk"]
\* The engine gives the next fragment: accumulate it, yield it encoded.
\* `contexts` is the store as the code before the loop pass left it.
StreamChunk(r, contexts) ==
    \E token \in Fragments :
        /\ Len(produced[r]) < MaxFrags
        /\ produced' = [produced EXCEPT ![r] = Append(@, token)]
        /\ full_response' = [full_response EXCEPT ![r] = @ \o token]
        /\ sent' = [sent EXCEPT ![r] =
                       Append(@, chunk_frame(str_replace_newline(token)))]
        /\ conversation_contexts' = contexts
        /\ pc' = [pc EXCEPT ![r] = "y_chunk"]

StreamFinish_without_append(r, contexts) ==
    /\ conversation_contexts' = contexts
    /\ sent' = [sent EXCEPT ![r] = Append(@, done_frame)]
    /\ pc' = [pc EXCEPT ![r] = "y_done"]
    /\ UNCHANGED <<produced, full_response>>
\* The engine's sequence is exhausted: append the assistant turn, yield
\* "event: done".
StreamFinish(r, contexts) ==
    /\ conversation_contexts' =
           append_turn(contexts, Input(r).session_id,
                       assistant_turn(r, str_strip(full_response[r])))
    /\ sent' = [sent EXCEPT ![r] = Append(@, done_frame)]
    /\ pc' = [pc EXCEPT ![r] = "y_done"]
    /\ UNCHANGED <<produced, full_response>>

StreamExcept_keeps_partial(r, contexts) ==
    \E e \in EngineErrors :
        /\ sent' = [sent EXCEPT ![r] = Append(@, error_frame(e))]
        /\ conversation_contexts' =
               append_turn(contexts, Input(r).session_id,
                           assistant_turn(r, str_strip(full_response[r])))
        /\ pc' = [pc EXCEPT ![r] = "y_error"]
        /\ UNCHANGED <<produced, full_response>>
\* The engine raises: except Exception as e: yield the error frame.
StreamExcept(r, contexts) ==
    \E e \in EngineErrors :
        /\ sent' = [sent EXCEPT ![r] = Append(@, error_frame(e))]
        /\ conversation_contexts' = contexts
        /\ pc' = [pc EXCEPT ![r] = "y_error"]
        /\ UNCHANGED <<produced, full_response>>

\* One pass of `for output in generator(...)`.
StreamLoop(r, contexts) ==
    \/ StreamChunk(r, contexts)
    \/ StreamFinish(r, contexts)
    \/ StreamExcept(r, contexts)

StreamGenerate_prompt_before_append(r) ==
    /\ pc[r] = "start" /\ IsStream(r)
    /\ generator # "None"
    /\ ~is_clear_context(Input(r).prompt)
    /\ LET session_id == Input(r).session_id
           user_prompt == Input(r).prompt
       IN  \E before \in {ensure_context(conversation_contexts, session_id)} :
             /\ engine_calls' = [engine_calls EXCEPT ![r] = Append(@,
                    [prompt |-> full_prompt(STREAM_SYSTEM, before[session_id]),
                     max_tokens |-> stream_max_tokens(Input(r).max_tokens, user_prompt),
                     stream |-> TRUE])]
             /\ StreamLoop(r, append_turn(before, session_id,
                                          user_turn(r, user_prompt)))
    /\ UNCHANGED <<started, generator, request, result, est_vars>>
\* Lines 131-153: create the session if needed, append the user turn, build
\* the prompt, resolve max_tokens, call the engine and enter the loop.
StreamGenerate(r) ==
    /\ pc[r] = "start" /\ IsStream(r)
    /\ generator # "None"
    /\ ~is_clear_context(Input(r).prompt)
    /\ LET session_id == Input(r).session_id
           user_prompt == Input(r).prompt
       IN  \E contexts \in
                 {append_turn(ensure_context(conversation_contexts, session_id),
                              session_id, user_turn(r, user_prompt))} :
             /\ engine_calls' = [engine_calls EXCEPT ![r] = Append(@,
                    [prompt |-> full_prompt(STREAM_SYSTEM, contexts[session_id]),
                     max_tokens |-> stream_max_tokens(Input(r).max_tokens, user_prompt),
                     stream |-> TRUE])]
             /\ StreamLoop(r, contexts)
    /\ UNCHANGED <<started, generator, request, result, est_vars>>

\* Resumed after a chunk: await asyncio.sleep(0).
StreamSleep(r) ==
    /\ pc[r] = "y_chunk"
    /\ pc' = [pc EXCEPT ![r] = "sleep"]
    /\ UNCHANGED <<store_vars, request, full_response, sent, result, engine_calls,
                   produced, est_vars>>

\* Resumed after the sleep: the next pass of the loop.
StreamResume(r) ==
    /\ pc[r] = "sleep"
    /\ StreamLoop(r, conversation_contexts)
    /\ UNCHANGED <<started, generator, request, result, engine_calls, est_vars>>

StreamErrorEnd_done(r) ==
    /\ pc[r] = "y_error"
    /\ sent' = [sent EXCEPT ![r] = Append(@, done_frame)]
    /\ pc' = [pc EXCEPT ![r] = "y_error_end"]
    /\ UNCHANGED <<store_vars, request, full_response, result, engine_calls,
                   produced, est_vars>>
\* Resumed after the error frame: yield "event: error".
StreamErrorEnd(r) ==
    /\ pc[r] = "y_error"
    /\ sent' = [sent EXCEPT ![r] = Append(@, error_end_frame)]
    /\ pc' = [pc EXCEPT ![r] = "y_error_end"]
    /\ UNCHANGED <<store_vars, request, full_response, result, engine_calls,
                   produced, est_vars>>

\* Resumed after its last yield, the generator returns.
StreamReturn(r) ==
    /\ pc[r] \in {"y_unavailable", "y_done", "y_error_end"}
    /\ pc' = [pc EXCEPT ![r] = "finished"]
    /\ UNCHANGED <<store_vars, request, full_response, sent, result, engine_calls,
                   produced, est_vars>>

(***************************************************************************)
(* generate_response_sync: the handler has no await, so it is one step.    *)
(***************************************************************************)
SyncUnavailable_after_append(r) ==
    /\ pc[r] = "start" /\ IsSync(r)
    /\ generator = "None"
    /\ conversation_contexts' =
           IF is_clear_context(Input(r).prompt)
           THEN new_context(conversation_contexts, Input(r).session_id)
           ELSE append_turn(ensure_context(conversation_contexts, Input(r).session_id),
                            Input(r).session_id, user_turn(r, Input(r).prompt))
    /\ result' = [result EXCEPT ![r] = [kind |-> "return", text |-> MODEL_NOT_LOADED]]
    /\ pc' = [pc EXCEPT ![r] = "finished"]
    /\ UNCHANGED <<started, generator, request, full_response, sent, engine_calls,
                   produced, est_vars>>
\* if generator is None: return the fixed string
SyncUnavailable(r) ==
    /\ pc[r] = "start" /\ IsSync(r)
    /\ generator = "None"
    /\ result' = [result EXCEPT ![r] = [kind |-> "return", text |-> MODEL_NOT_LOADED]]
    /\ pc' = [pc EXCEPT ![r] = "finished"]
    /\ UNCHANGED <<store_vars, request, full_response, sent, engine_calls,
                   produced, est_vars>>

\* if "clear context" in user_prompt.lower(): replace the deque and return
SyncClear(r) ==
    /\ pc[r] = "start" /\ IsSync(r)
    /\ generator # "None"
    /\ is_clear_context(Input(r).prompt)
    /\ conversation_contexts' = new_context(conversation_contexts, Input(r).session_id)
    /\ result' = [result EXCEPT ![r] = [kind |-> "return", text |-> CONTEXT_CLEARED]]
    /\ pc' = [pc EXCEPT ![r] = "finished"]
    /\ UNCHANGED <<started, generator, request, full_response, sent, engine_calls,
                   produced, est_vars>>

sync_response_without_fallback(text) == str_strip(text)
\* response = result['choices'][0]['text'].strip(), or the fallback sentence
sync_response(text) ==
    IF str_strip(text) = <<>> THEN SYNC_FALLBACK ELSE str_strip(text)

SyncReturn_out_of_order(r, contexts, text) ==
    /\ conversation_contexts' =
           [contexts EXCEPT ![Input(r).session_id] =
               <<assistant_turn(r, sync_response(text))>> \o @]
    /\ result' = [result EXCEPT ![r] = [kind |-> "return", text |-> sync_response(text)]]
    /\ produced' = [produced EXCEPT ![r] = <<text>>]
\* The engine returns `text`: append the assistant turn and return it.
SyncReturn(r, contexts, text) ==
    /\ conversation_contexts' =
           append_turn(contexts, Input(r).session_id,
                       assistant_turn(r, sync_response(text)))
    /\ result' = [result EXCEPT ![r] = [kind |-> "return", text |-> sync_response(text)]]
    /\ produced' = [produced EXCEPT ![r] = <<text>>]

\* The engine raises: raise HTTPException(status_code=500, detail=str(e))
SyncExcept(r, contexts, e) ==
    /\ conversation_contexts' = contexts
    /\ result' = [result EXCEPT ![r] = [kind |-> "raise", text |-> e]]
    /\ UNCHANGED produced

\* Lines 200-226: create the session if needed, append the user turn, build
\* the prompt, resolve max_tokens, call the engine once.
SyncGenerate(r) ==
    /\ pc[r] = "start" /\ IsSync(r)
    /\ generator # "None"
    /\ ~is_clear_context(Input(r).prompt)
    /\ LET session_id == Input(r).session_id
           user_prompt == Input(r).prompt
       IN  \E contexts \in
                 {append_turn(ensure_context(conversation_contexts, session_id),
                              session_id, user_turn(r, user_prompt))} :
             /\ engine_calls' = [engine_calls EXCEPT ![r] = Append(@,
                    [prompt |-> full_prompt(SYNC_SYSTEM, contexts[session_id]),
                     max_tokens |-> sync_max_tokens(Input(r).max_tokens, user_prompt),
                     stream |-> FALSE])]
             /\ \/ \E text \in Completions : SyncReturn(r, contexts, text)
                \/ \E e \in EngineErrors : SyncExcept(r, contexts, e)
    /\ pc' = [pc EXCEPT ![r] = "finished"]
    /\ UNCHANGED <<started, generator, request, full_response, sent, est_vars>>

\* The steps a handler takes when the engine is loaded.
HandleLoaded(r) ==
    \/ StreamClear(r)
    \/ StreamClearDone(r)
    \/ StreamGenerate(r)
    \/ StreamSleep(r)
    \/ StreamResume(r)
    \/ StreamErrorEnd(r)
    \/ StreamReturn(r)
    \/ SyncClear(r)
    \/ SyncGenerate(r)

Handle(r) ==
    \/ StreamUnavailable(r)
    \/ SyncUnavailable(r)
    \/ HandleLoaded(r)

Next ==
    \/ startup_event
    \/ \E r \in Requests : Arrive(r) \/ Handle(r)

Spec == Init /\ [][Next]_vars

(***************************************************************************)
(* The estimator on its own: estimate_response_tokens applied to texts     *)
(* long enough to reach every tier, beside a store it must not touch.      *)
(***************************************************************************)
\* n words of wl characters, each after one space.
Filler(n, wl) ==
    [i \in 1..(n * (wl + 1)) |-> IF i % (wl + 1) = 1 THEN " " ELSE "x"]

\* "", "What is 2+2?", "explain", "WHY not"
EstLeads ==
    { <<>>, <<"W", "h", "a", "t", " ", "i", "s", " ", "2", "+", "2", "?">>, <<"e", "x", "p", "l", "a", "i", "n">>, <<"W", "H", "Y", " ", "n", "o", "t">> }
\* "", " Debug the poem", " code how to list story review"
EstTails ==
    { <<>>, <<" ", "D", "e", "b", "u", "g", " ", "t", "h", "e", " ", "p", "o", "e", "m">>, <<" ", "c", "o", "d", "e", " ", "h", "o", "w", " ", "t", "o", " ", "l", "i", "s", "t", " ", "s", "t", "o", "r", "y", " ", "r", "e", "v", "i", "e", "w">> }
EstWordCounts == {0, 19, 20, 50, 51, 100, 101, 200, 201, 246, 249}
EstWordLens == {1, 9}
EstInputs ==
    { lead \o Filler(n, wl) \o tail :
        lead \in EstLeads, n \in EstWordCounts, wl \in EstWordLens, tail \in EstTails }

\* Two stores the service can be in: never loaded, and loaded with one user
\* turn recorded.
EstStores ==
    { <<"None", EmptyContexts>>,
      <<"Llama", [k \in {DEFAULT_SESSION_ID} |-> <<user_turn(0, <<"h", "i">>)>>]>> }

InitEst ==
    /\ started = TRUE
    /\ \E s \in EstStores : generator = s[1] /\ conversation_contexts = s[2]
    /\ NoRequests
    /\ est_prompt \in EstInputs
    /\ est_tokens = <<>>

Estimate ==
    /\ est_tokens = <<>>
    /\ est_tokens' = <<estimate_response_tokens(est_prompt)>>
    /\ UNCHANGED <<store_vars, request_vars, est_prompt>>

SpecEst == InitEst /\ [][Estimate]_vars

(***************************************************************************)
(* The store near its capacity: the default session already holds the      *)
(* turns of earlier exchanges (user and assistant turns in alternation),   *)
(* and the requests of the model come on top.  The earlier exchanges are   *)
(* those of sync requests -1, -2, ..., each "hi" answered "Hi"; the last   *)
(* one of an odd fill has failed and left its user turn.                   *)
(***************************************************************************)
Prefill(n) ==
    [i \in 1..n |->
        IF i % 2 = 1 THEN user_turn(0 - ((i + 1) \div 2), <<"h", "i">>)
        ELSE assistant_turn(0 - ((i + 1) \div 2), <<"H", "i">>)]
CapFills == {MAX_CONTEXT_LENGTH - 2, MAX_CONTEXT_LENGTH - 1, MAX_CONTEXT_LENGTH}

InitCap ==
    /\ started = TRUE
    /\ generator = "Llama"
    /\ \E n \in CapFills :
         conversation_contexts = [k \in {DEFAULT_SESSION_ID} |-> Prefill(n)]
    /\ NoRequests
    /\ est_prompt = <<>>
    /\ est_tokens = <<>>

ArriveCap(r) == ArriveFrom(r, Endpoints, Prompts, SessionIdInputs, {<<>>})

NextCap == \E r \in Requests : ArriveCap(r) \/ HandleLoaded(r)

SpecCap == InitCap /\ [][NextCap]_vars


\* The event loop runs every ready task in turn: a handler that can take its
\* next step (uvicorn resuming the generator, asyncio.sleep(0) returning)
\* takes it eventually.
Fairness == \A r \in Requests : WF_vars(Handle(r))

\* The budget plays no part in the scheduling: the requests carry none.
ArriveFair(r) == ArriveFrom(r, Endpoints, Prompts, SessionIdInputs, {<<>>})

NextFair ==
    \/ startup_event
    \/ \E r \in Requests : ArriveFair(r) \/ Handle(r)

SpecFair == Init /\ [][NextFair]_vars /\ Fairness
(***************************************************************************)
(* Properties.                                                             *)
(***************************************************************************)
SessionOf(r) == request[r].input.session_id
Handled(r) == pc[r] \notin {"idle", "start"}

\* The events of the stream: a chunk, the done event, an error event (a frame
\* carrying an error message), and the error terminator "event: error".
IsChunk(f) == f.key = "chunk"
IsDone(f) == f.event = "done"
IsErrorEvent(f) == f.key = "error"
IsErrorTerminator(f) == f.event = "error"
IsTerminal(f) == IsDone(f) \/ IsErrorEvent(f)
StreamEnded(r) == pc[r] \in {"y_unavailable", "y_done", "y_error_end", "finished"}

TurnsOf(r) ==
    { t \in UNION { {conversation_contexts[k][i] : i \in DOMAIN conversation_contexts[k]} :
                      k \in DOMAIN conversation_contexts } : t.req = r }

\* C1: every stream is finite and holds exactly one terminal event, done or
\* error, once it has ended: never both a done and an error, never two
\* terminal events, and no chunk after the terminal event.  The only frame that
\* may follow the terminal event is the error terminator, directly after an
\* error event of a failed generation.
C1_OneTerminalEvent ==
    \A r \in Requests :
        LET s == sent[r]
            terminals == {i \in DOMAIN s : IsTerminal(s[i])}
        IN  /\ Cardinality(terminals) <= 1
            /\ ~(\E i, j \in DOMAIN s : IsDone(s[i]) /\ IsErrorEvent(s[j]))
            /\ \A i, j \in DOMAIN s :
                   i < j /\ IsTerminal(s[i]) =>
                       /\ ~IsChunk(s[j])
                       /\ IsErrorTerminator(s[j]) /\ j = i + 1 /\ j = Len(s)
            /\ \A j \in DOMAIN s :
                   IsErrorTerminator(s[j]) => j > 1 /\ IsErrorEvent(s[j - 1])
            /\ IsStream(r) /\ StreamEnded(r) => Cardinality(terminals) = 1
            /\ Len(s) <= MaxFrags + 2
            /\ IsSync(r) => s = <<>>

C1_Witness ==
    \E r \in Requests :
        /\ pc[r] = "finished" /\ IsStream(r)
        /\ Len(sent[r]) >= 3
        /\ IsChunk(sent[r][1])
        /\ IsErrorTerminator(sent[r][Len(sent[r])])

RECURSIVE Flatten(_)
\* The in-order concatenation of a sequence of fragments.
Flatten(fragments) ==
    IF fragments = <<>> THEN <<>> ELSE Head(fragments) \o Flatten(Tail(fragments))

RECURSIVE SentinelEncoded(_)
\* A text with every newline replaced by the sentinel.
SentinelEncoded(text) ==
    IF Len(text) = 0 THEN <<>>
    ELSE SentinelEncoded(SubSeq(text, 1, Len(text) - 1))
             \o (IF text[Len(text)] = "\n" THEN NEWLINE_TOKEN ELSE <<text[Len(text)]>>)

IsBlank(c) == c \in {" ", "\n", "\t", "\r"}
\* A text without its trailing whitespace.
TrimTrailing(text) ==
    SubSeq(text, 1,
           Max({0} \cup {i \in 1..Len(text) : ~IsBlank(text[i])}))
\* A text without its leading and its trailing whitespace.
TrimBoth(text) ==
    SubSeq(text,
           Min({Len(text) + 1} \cup {i \in 1..Len(text) : ~IsBlank(text[i])}),
           Max({0} \cup {i \in 1..Len(text) : ~IsBlank(text[i])}))

Generating(r) == IsStream(r) /\ engine_calls[r] # <<>>

\* The stream of a generation is one chunk per fragment, each the encoded
\* fragment, in engine order, nothing held back; the accumulator is the
\* concatenation of the raw fragments; a successful stream is these chunks and
\* then done.
ChunkPerFragment ==
    \A r \in Requests :
        Generating(r) =>
            LET n == Len(produced[r])
            IN  /\ Len(sent[r]) >= n
                /\ \A i \in 1..n :
                       sent[r][i] = chunk_frame(SentinelEncoded(produced[r][i]))
                /\ \A i \in DOMAIN sent[r] : i > n => ~IsChunk(sent[r][i])
                /\ full_response[r] = Flatten(produced[r])
                /\ pc[r] = "y_done" =>
                       /\ Len(sent[r]) = n + 1
                       /\ sent[r][n + 1] = done_frame

\* The step in which a streaming generation ends successfully.
StreamSucceeds(r) ==
    /\ Generating(r)'
    /\ pc[r] \in {"start", "sleep"}
    /\ pc'[r] = "y_done"

\* C2, as claimed: one chunk per fragment and then done, and the assistant turn
\* appended is the concatenation of the raw fragments with its trailing
\* whitespace trimmed.
C2_TrailingTrimmed ==
    /\ []ChunkPerFragment
    /\ [][\A r \in Requests :
            StreamSucceeds(r) =>
                LET turns == conversation_contexts'[SessionOf(r)']
                IN  turns[Len(turns)] =
                        assistant_turn(r, TrimTrailing(Flatten(produced'[r])))]_vars

\* C2, amended: one chunk per fragment and then done, and the assistant turn
\* appended is the concatenation of the raw fragments with its leading and its
\* trailing whitespace trimmed.
C2_BothEndsTrimmed ==
    /\ []ChunkPerFragment
    /\ [][\A r \in Requests :
            StreamSucceeds(r) =>
                LET turns == conversation_contexts'[SessionOf(r)']
                IN  turns[Len(turns)] =
                        assistant_turn(r, TrimBoth(Flatten(produced'[r])))]_vars

C2_Witness ==
    \E r \in Requests :
        /\ Generating(r) /\ pc[r] = "y_done"
        /\ Len(produced[r]) = MaxFrags
        /\ IsBlank(full_response[r][1])
        /\ \E i \in DOMAIN sent[r] : sent[r][i] = chunk_frame(NEWLINE_TOKEN)
        /\ \E t \in TurnsOf(r) : t.role = "assistant"

\* The generation of request r has failed: the engine was called and raised.
Failed(r) ==
    /\ engine_calls[r] # <<>>
    /\ \/ IsStream(r) /\ \E i \in DOMAIN sent[r] : IsErrorEvent(sent[r][i])
       \/ IsSync(r) /\ result[r].kind = "raise"

C4_UnavailableEngine ==
    /\ [](started /\ generator = "None" =>
            \A r \in Requests :
                /\ IsStream(r) /\ Handled(r) =>
                       sent[r] = <<raw_error_frame(MODEL_NOT_LOADED)>>
                /\ IsStream(r) /\ ~Handled(r) => sent[r] = <<>>
                /\ IsSync(r) /\ Handled(r) =>
                       result[r] = [kind |-> "return", text |-> MODEL_NOT_LOADED]
                /\ engine_calls[r] = <<>>)
    /\ [][started => generator' = generator]_vars

C4_Witness ==
    /\ generator = "None"
    /\ \E r \in Requests :
        IsStream(r) /\ pc[r] = "finished" /\ is_clear_context(request[r].input.prompt)
    /\ \E r \in Requests :
        IsSync(r) /\ pc[r] = "finished" /\ ~is_clear_context(request[r].input.prompt)

\* The text holds "clear context" somewhere, in any mix of cases.
MentionsClearContext(text) ==
    \E i \in 1..(Len(text) - Len(CLEAR_COMMAND) + 1) :
        str_lower(SubSeq(text, i, i + Len(CLEAR_COMMAND) - 1)) = CLEAR_COMMAND

ZeroTurns(contexts, k) == k \notin DOMAIN contexts \/ contexts[k] = <<>>

\* What a handled request that mentions "clear context" shows: no engine call,
\* no turn of its own in any history, and on a stream the confirmation chunk
\* and then done.
ClearedState(r) ==
    /\ engine_calls[r] = <<>>
    /\ TurnsOf(r) = {}
    /\ IsStream(r) =>
           IF pc[r] = "y_cleared"
           THEN sent[r] = <<chunk_frame(CONTEXT_CLEARED)>>
           ELSE sent[r] = <<chunk_frame(CONTEXT_CLEARED), done_frame>>

\* The step in which a request that mentions "clear context" is handled leaves
\* its session with zero turns.
ClearedStep(r) ==
    pc[r] = "start" /\ pc'[r] # "start" /\ MentionsClearContext(request[r].input.prompt)
        => ZeroTurns(conversation_contexts', SessionOf(r))

\* C5, as claimed: in every state of the store and of the engine, a request
\* whose text mentions "clear context" leaves its session with zero turns,
\* records no turn, never calls the engine, and on a stream emits the
\* confirmation chunk and then done.
C5_ClearInEveryEngineState ==
    /\ [](\A r \in Requests :
            Handled(r) /\ MentionsClearContext(request[r].input.prompt)
                => ClearedState(r))
    /\ [][\A r \in Requests : ClearedStep(r)]_vars

\* C5, amended: the same, when the engine is available.
C5_ClearWhenEngineLoaded ==
    /\ [](\A r \in Requests :
            /\ generator # "None"
            /\ Handled(r) /\ MentionsClearContext(request[r].input.prompt)
            => ClearedState(r))
    /\ [][\A r \in Requests : generator # "None" => ClearedStep(r)]_vars

C5_Witness ==
    \E r, q \in Requests :
        /\ r # q /\ SessionOf(r) = SessionOf(q)
        /\ engine_calls[q] # <<>> /\ pc[q] = "finished" /\ TurnsOf(q) = {}
        /\ IsStream(r) /\ pc[r] = "y_done"
        /\ MentionsClearContext(request[r].input.prompt)
        /\ request[r].input.prompt # CLEAR_COMMAND
        /\ sent[r] = <<chunk_frame(CONTEXT_CLEARED), done_frame>>
        /\ conversation_contexts[SessionOf(r)] = <<>>

Elements(s) == {s[i] : i \in DOMAIN s}
\* The newest n elements of a sequence, in their order.
Newest(s, n) == IF Len(s) <= n THEN s ELSE SubSeq(s, Len(s) - n + 1, Len(s))

\* What a step may do to one history: leave it, empty it, or append n turns
\* of the request that takes the step, and then the history is the newest 100
\* of the old turns and the appended ones, in their order.
HistoryStep(old, new) ==
    \/ new = old
    \/ new = <<>>
    \/ \E n \in 1..2 :
           /\ n <= Len(new)
           /\ \A i \in (Len(new) - n + 1)..Len(new) :
                  new[i].req \in Requests /\ pc'[new[i].req] # pc[new[i].req]
           /\ new = Newest(old \o SubSeq(new, Len(new) - n + 1, Len(new)), 100)

\* C6: every history holds at most 100 turns; a step that appends to a history
\* keeps the newest 100 turns in order, so appending to a history of 100 turns
\* evicts exactly the oldest; and the user turn of a request that reaches the
\* engine is in the history right after its append.
C6_BoundedHistory ==
    /\ [](\A k \in DOMAIN conversation_contexts :
            Len(conversation_contexts[k]) <= 100)
    /\ [][/\ \A k \in DOMAIN conversation_contexts' :
               HistoryStep(IF k \in DOMAIN conversation_contexts
                           THEN conversation_contexts[k] ELSE <<>>,
                           conversation_contexts'[k])
          /\ \A r \in Requests :
               engine_calls'[r] # engine_calls[r] =>
                   LET turns == conversation_contexts'[SessionOf(r)]
                   IN  \E i \in {Len(turns) - 1, Len(turns)} \cap DOMAIN turns :
                           turns[i] = user_turn(r, request[r].input.prompt)]_vars

C6_Witness ==
    \E k \in DOMAIN conversation_contexts :
        LET turns == conversation_contexts[k]
        IN  /\ Len(turns) = 100
            /\ turns[1].req < 0 - 1
            /\ turns[99].req >= 1 /\ turns[100].req >= 1
            /\ \E j \in DOMAIN conversation_contexts :
                   j # k /\ conversation_contexts[j] # <<>>

\* C7: a step of a request on session k changes no other session's history;
\* every turn of a history was appended by a request on that session, and the
\* prompt a request gives the engine is built from the history of its own
\* session alone; a request that omits the session id works on "default".
C7_SessionIsolation ==
    /\ [](\A k \in DOMAIN conversation_contexts :
            \A t \in Elements(conversation_contexts[k]) : SessionOf(t.req) = k)
    /\ [](\A r \in Requests :
            request[r].endpoint # "none" =>
                SessionOf(r) = IF request[r].given_session_id = <<>> THEN "default"
                               ELSE request[r].given_session_id[1])
    /\ [][\A r \in Requests :
            pc'[r] # pc[r] =>
                \A k \in (DOMAIN conversation_contexts
                             \cup DOMAIN conversation_contexts') \ {SessionOf(r)'} :
                    /\ k \in DOMAIN conversation_contexts
                    /\ k \in DOMAIN conversation_contexts'
                    /\ conversation_contexts'[k] = conversation_contexts[k]]_vars
    /\ [][\A r \in Requests :
            engine_calls'[r] # engine_calls[r] =>
                LET turns == conversation_contexts'[SessionOf(r)]
                    last == turns[Len(turns)]
                    seen == IF last.req = r /\ last.role = "assistant"
                            THEN SubSeq(turns, 1, Len(turns) - 1) ELSE turns
                IN  engine_calls'[r][1].prompt =
                        full_prompt(IF IsStream(r) THEN STREAM_SYSTEM ELSE SYNC_SYSTEM,
                                    seen)]_vars

C7_Witness ==
    /\ \E r, q \in Requests :
        /\ request[r].given_session_id = <<>> /\ request[q].given_session_id # <<>>
        /\ pc[r] = "finished" /\ pc[q] = "finished"
        /\ \E t \in TurnsOf(r) : t.role = "assistant"
        /\ \E t \in TurnsOf(q) : t.role = "assistant"
    /\ Cardinality(DOMAIN conversation_contexts) = 2

\* The tiers and the categories of the estimate, as a table.
WordTiers ==
    { [above |-> 200, bonus |-> 1024], [above |-> 100, bonus |-> 768],
      [above |-> 50, bonus |-> 512], [above |-> 20, bonus |-> 256] }
CharTiers ==
    { [above |-> 2000, bonus |-> 1024], [above |-> 1000, bonus |-> 512] }
Categories ==
    { [name |-> "code", keywords |-> code_keywords, bonus |-> 1536],
      [name |-> "explanation", keywords |-> explain_keywords, bonus |-> 1024],
      [name |-> "enumeration", keywords |-> list_keywords, bonus |-> 768],
      [name |-> "creative", keywords |-> creative_keywords, bonus |-> 1024],
      [name |-> "analytical", keywords |-> analysis_keywords, bonus |-> 1024],
      [name |-> "question-lead", keywords |-> qa_keywords, bonus |-> 512] }

\* The bonus of the single highest tier the value exceeds, 0 when none.
TierBonus(tiers, value) ==
    LET matching == {t \in tiers : value > t.above}
    IN  IF matching = {} THEN 0
        ELSE (CHOOSE t \in matching : \A u \in matching : u.above <= t.above).bonus

\* A category matches a lower-cased text: the question-lead category when the
\* text starts with one of its words, the others when the text holds one of
\* their keywords.
CategoryMatches(category, lowered) ==
    IF category.name = "question-lead"
    THEN \E k \in category.keywords : str_startswith(lowered, k)
    ELSE \E k \in category.keywords : str_contains(lowered, k)
MatchingCategories(lowered) == {c \in Categories : CategoryMatches(c, lowered)}

RECURSIVE SumBonus(_)
SumBonus(categories) ==
    IF categories = {} THEN 0
    ELSE LET c == CHOOSE c \in categories : TRUE
         IN  c.bonus + SumBonus(categories \ {c})

Clamp(value, low, high) == IF value < low THEN low ELSE IF value > high THEN high ELSE value

ReferenceEstimate(text) ==
    Clamp(512 + TierBonus(WordTiers, str_split_len(text))
              + TierBonus(CharTiers, Len(text))
              + SumBonus(MatchingCategories(str_lower(text))),
          256, 4096)

Estimated == est_tokens # <<>>

\* C8: the estimate of every text is an integer in [256, 4096], and the call
\* changes neither the session store nor the engine.
C8_EstimateInRange ==
    /\ [](Estimated => est_tokens[1] \in 256..4096)
    /\ [][est_tokens' # est_tokens =>
            UNCHANGED <<started, generator, conversation_contexts, request_vars>>]_vars

C8_Witness ==
    /\ Estimated /\ est_tokens[1] = 4096
    /\ Len(est_prompt) > 2000
    /\ conversation_contexts # EmptyContexts

\* C9: the estimate of every text equals clamp(512 + wordTier + charTier + the
\* bonuses of all matching categories, 256, 4096); the estimate of
\* "What is 2+2?" is 1024.
C9_EstimateIsReference ==
    Estimated =>
        /\ est_tokens[1] = ReferenceEstimate(est_prompt)
        /\ est_prompt = <<"W", "h", "a", "t", " ", "i", "s", " ", "2", "+", "2", "?">> => est_tokens[1] = 1024

C9_Witness ==
    /\ est_prompt = <<"W", "h", "a", "t", " ", "i", "s", " ", "2", "+", "2", "?">>
    /\ est_tokens = <<1024>>

\* A text of 250 words that holds "explain".
Explain250(text) ==
    /\ str_split_len(text) = 250
    /\ str_contains(text, <<"e", "x", "p", "l", "a", "i", "n">>)

\* C10, as claimed: the estimate of a text of 250 words that holds "explain"
\* is 2560.
C10_Explain250Is2560 ==
    Estimated /\ Explain250(est_prompt) => est_tokens[1] = 2560

\* C10, amended: the estimate of a text of 250 words that holds "explain" is
\* 2560 when the text has at most 1000 characters and matches no category
\* other than explanation.
C10_ShortExplain250Is2560 ==
    /\ Estimated /\ Explain250(est_prompt)
    /\ Len(est_prompt) <= 1000
    /\ \A c \in MatchingCategories(str_lower(est_prompt)) : c.name = "explanation"
    => est_tokens[1] = 2560

C10_Witness ==
    /\ Explain250(est_prompt)
    /\ Len(est_prompt) <= 1000
    /\ est_tokens = <<2560>>


\* The budget handed to the engine by the one call a request makes.
BudgetPassed(r) == engine_calls[r][1].max_tokens
\* The budget the request carries, when it is a positive integer.
ValidBudget(r) == Input(r).max_tokens # <<>> /\ Input(r).max_tokens[1] > 0

\* C11: in both controllers the budget passed to the engine is the budget of
\* the request when it is present and a positive integer, and the estimate of
\* the user text otherwise; so both controllers resolve the same budget for
\* the same request, and the budget passed is always a positive integer.
C11_BudgetResolved ==
    \A r \in Requests :
        engine_calls[r] # <<>> =>
            /\ BudgetPassed(r) =
                   (IF ValidBudget(r) THEN Input(r).max_tokens[1]
                    ELSE estimate_response_tokens(Input(r).prompt))
            /\ BudgetPassed(r) > 0

\* A streaming request is suspended after a fragment it emitted: at the yield
\* of the chunk or at the sleep that follows it.
Suspended(r) == pc[r] \in {"y_chunk", "sleep"}
Pending(q) == pc[q] \notin {"idle", "finished"}
HasTerminalEvent(r) == \E i \in DOMAIN sent[r] : IsTerminal(sent[r][i])

\* C12: the streaming controller suspends after every fragment it emits: a
\* step emits at most one fragment and leaves the request suspended, and while
\* a stream is suspended between two fragments every other pending request has
\* a step enabled; under a fair scheduler every streaming request (its engine
\* sequence is finite) eventually reaches its terminal event, whatever the
\* other requests do.
C12_FairInterleaving ==
    /\ [][\A r \in Requests :
            IsStream(r) /\ produced'[r] # produced[r] =>
                /\ Len(produced'[r]) = Len(produced[r]) + 1
                /\ Len(sent'[r]) = Len(sent[r]) + 1
                /\ Suspended(r)']_vars
    /\ [](\A r, q \in Requests :
            r # q /\ Suspended(r) /\ Pending(q) => ENABLED Handle(q))
    /\ \A r \in Requests :
          (IsStream(r) /\ pc[r] = "start") ~> HasTerminalEvent(r)

C12_Witness ==
    \E r, q \in Requests :
        /\ r # q /\ IsStream(r) /\ IsStream(q)
        /\ SessionOf(r) = SessionOf(q)
        /\ pc[r] = "sleep" /\ Len(produced[r]) = 1
        /\ pc[q] = "y_chunk" /\ Len(produced[q]) = MaxFrags

\* The frames of a stream whose engine raised after the fragments in
\* `fragments`, up to and including its n-th closing frame.
FailedStream(fragments, detail, n) ==
    [i \in 1..(Len(fragments) + n) |->
        IF i <= Len(fragments) THEN chunk_frame(SentinelEncoded(fragments[i]))
        ELSE IF i = Len(fragments) + 1
             THEN [event |-> "message", key |-> "error", text |-> detail]
        ELSE [event |-> "error", key |-> "", text |-> <<>>]]

\* C13: when the engine raises after k >= 0 fragments, the stream is exactly
\* the k chunks already emitted, then one error event carrying the detail of
\* the failure, then the error terminator, which is not the done event; the
\* stream holds no done event, and it ends there: nothing is emitted after
\* the error terminator.
C13_FailedStream ==
    /\ [](\A r \in Requests :
            IsStream(r) /\ Failed(r) =>
                /\ \E detail \in EngineErrors :
                       sent[r] = FailedStream(produced[r], detail,
                                              IF pc[r] = "y_error" THEN 1 ELSE 2)
                /\ ~(\E i \in DOMAIN sent[r] : IsDone(sent[r][i]))
                /\ error_end_frame # done_frame
                /\ pc[r] \in {"y_error", "y_error_end", "finished"})
    /\ [][\A r \in Requests :
            IsStream(r) /\ Failed(r) =>
                /\ produced'[r] = produced[r]
                /\ pc[r] = "y_error" => pc'[r] \in {"y_error", "y_error_end"}
                /\ pc[r] = "y_error_end" =>
                       sent'[r] = sent[r] /\ pc'[r] \in {"y_error_end", "finished"}
                /\ pc[r] = "finished" => sent'[r] = sent[r] /\ pc'[r] = "finished"]_vars

C13_Witness ==
    /\ \E r \in Requests :
          /\ IsStream(r) /\ Failed(r) /\ pc[r] = "finished"
          /\ Len(produced[r]) = MaxFrags /\ Len(sent[r]) = MaxFrags + 2
    /\ \E r \in Requests :
          /\ IsStream(r) /\ Failed(r) /\ pc[r] = "finished"
          /\ produced[r] = <<>> /\ Len(sent[r]) = 2

RECURSIVE RenderedHistory(_)
\* The texts of the turns of a history, one per line.
RenderedHistory(turns) ==
    IF Len(turns) = 0 THEN <<>>
    ELSE IF Len(turns) = 1 THEN turns[1].text
    ELSE RenderedHistory(SubSeq(turns, 1, Len(turns) - 1))
             \o <<"\n">> \o turns[Len(turns)].text

HistoryOf(contexts, k) == IF k \in DOMAIN contexts THEN contexts[k] ELSE <<>>
OwnUserTurn(r) ==
    [text |-> <<"U", "s", "e", "r", ":", " ">> \o Input(r).prompt, role |-> "user", req |-> r]
EndsWith(text, tail) ==
    /\ Len(tail) <= Len(text)
    /\ SubSeq(text, Len(text) - Len(tail) + 1, Len(text)) = tail

\* C14: in both controllers, a request that is not a reset and finds the
\* engine loaded appends its user turn before it calls the engine, and the
\* prompt of the call is the preamble, then the history of its session as it
\* is right after that append (so the last line of the history is the
\* request's own user turn), then the cue "Assistant:".  The append and the
\* call are one step of the request: no step of another request lies between
\* them.
C14_PromptAfterOwnUserTurn ==
    [][\A r \in Requests :
         engine_calls'[r] # engine_calls[r] =>
             LET k == SessionOf(r)
                 history == Newest(HistoryOf(conversation_contexts, k)
                                       \o <<OwnUserTurn(r)>>, MAX_CONTEXT_LENGTH)
                 call == engine_calls'[r][1]
             IN  /\ pc[r] = "start" /\ engine_calls[r] = <<>>
                 /\ Len(engine_calls'[r]) = 1
                 /\ generator # "None"
                 /\ ~MentionsClearContext(Input(r).prompt)
                 /\ TurnsOf(r) = {}
                 /\ OwnUserTurn(r) \in Elements(conversation_contexts'[k])
                 /\ call.prompt =
                        (IF IsStream(r) THEN STREAM_SYSTEM ELSE SYNC_SYSTEM)
                            \o <<"\n">> \o RenderedHistory(history) \o <<"\n", "A", "s", "s", "i", "s", "t", "a", "n", "t", ":">>
                 /\ EndsWith(call.prompt,
                             <<"\n">> \o OwnUserTurn(r).text \o <<"\n", "A", "s", "s", "i", "s", "t", "a", "n", "t", ":">>)
                 /\ call.stream = IsStream(r)]_vars

C14_Witness ==
    \E r, q \in Requests :
        /\ IsStream(r) /\ IsSync(q)
        /\ SessionOf(r) = SessionOf(q)
        /\ engine_calls[r] # <<>> /\ engine_calls[q] # <<>>
        /\ Len(engine_calls[q][1].prompt) > Len(engine_calls[r][1].prompt)
        /\ pc[r] = "sleep"

HasDone(frames) == \E i \in DOMAIN frames : IsDone(frames[i])
AssistantTurnsOf(r) == {t \in TurnsOf(r) : t.role = "assistant"}
OwnAssistantTurn(r, response) ==
    [text |-> <<"A", "s", "s", "i", "s", "t", "a", "n", "t", ":", " ">> \o response, role |-> "assistant", req |-> r]

\* C15: on the successful streaming path the done event is emitted only after
\* the assistant turn was appended: the step that emits done is the step that
\* has just appended the request's assistant turn (the trimmed concatenation of
\* all the fragments) as the newest turn of its session, so in the state in
\* which done is first visible the turn is recorded; and done is never emitted
\* before the engine's sequence is exhausted: once done is emitted the engine
\* produces no further fragment and the stream no further frame.
C15_DoneAfterAssistantTurn ==
    /\ [][\A r \in Requests :
            Generating(r)' /\ HasDone(sent'[r]) /\ ~HasDone(sent[r]) =>
                LET history == HistoryOf(conversation_contexts', SessionOf(r))
                IN  /\ AssistantTurnsOf(r) = {}
                    /\ history # <<>>
                    /\ history[Len(history)] =
                           OwnAssistantTurn(r, TrimBoth(Flatten(produced'[r])))
                    /\ sent'[r] = Append(sent[r], done_frame)
                    /\ produced'[r] = produced[r]
                    /\ pc'[r] = "y_done"]_vars
    /\ [][\A r \in Requests :
            Generating(r) /\ HasDone(sent[r]) =>
                /\ produced'[r] = produced[r]
                /\ sent'[r] = sent[r]
                /\ AssistantTurnsOf(r)' \subseteq AssistantTurnsOf(r)]_vars

C15_Witness ==
    \E r \in Requests :
        /\ Generating(r) /\ pc[r] = "y_done"
        /\ Len(produced[r]) = MaxFrags
        /\ HasDone(sent[r])
        /\ AssistantTurnsOf(r) # {}
        /\ \E q \in Requests : q # r /\ SessionOf(q) = SessionOf(r) /\ Suspended(q)

SyncSucceeded(r) == IsSync(r) /\ engine_calls[r] # <<>> /\ result[r].kind = "return"
\* What a sync generation answers for the text the engine returned.
SyncAnswer(text) == IF TrimBoth(text) = <<>> THEN SYNC_FALLBACK ELSE TrimBoth(text)

\* C16: for every successful sync generation the value returned to the caller
\* is the text of the assistant turn the request appended, as the newest turn
\* of its session: the engine's text trimmed, or the fixed fallback sentence
\* when the trimmed text is empty; so the sync controller never returns and
\* never records an empty assistant text.
C16_SyncReturnsRecordedText ==
    /\ [][\A r \in Requests :
            SyncSucceeded(r)' /\ ~SyncSucceeded(r) =>
                LET history == HistoryOf(conversation_contexts', SessionOf(r))
                IN  /\ Len(produced'[r]) = 1
                    /\ result'[r].text = SyncAnswer(produced'[r][1])
                    /\ AssistantTurnsOf(r) = {}
                    /\ history # <<>>
                    /\ history[Len(history)] = OwnAssistantTurn(r, result'[r].text)]_vars
    /\ [](\A r \in Requests :
            /\ SyncSucceeded(r) => result[r].text # <<>>
            /\ IsSync(r) =>
                   \A t \in AssistantTurnsOf(r) :
                       /\ SyncSucceeded(r)
                       /\ t = OwnAssistantTurn(r, result[r].text)
                       /\ Len(t.text) > Len(<<"A", "s", "s", "i", "s", "t", "a", "n", "t", ":", " ">>))

C16_Witness ==
    \E r, q \in Requests :
        /\ SyncSucceeded(r) /\ SyncSucceeded(q)
        /\ result[r].text = SYNC_FALLBACK /\ TrimBoth(produced[r][1]) = <<>>
        /\ result[q].text # SYNC_FALLBACK /\ result[q].text # produced[q][1]
        /\ AssistantTurnsOf(r) # {} /\ AssistantTurnsOf(q) # {}

\* The assistant turns of a history that have no user turn of the same
\* request before them in that history.
OrphanTurns(history) ==
    {i \in DOMAIN history :
        /\ history[i].role = "assistant"
        /\ ~(\E j \in 1..(i - 1) :
                history[j].role = "user" /\ history[j].req = history[i].req)}
\* The step in which request q, finding the engine loaded, resets its session.
ResetStep(q) ==
    /\ pc[q] = "start" /\ pc'[q] # "start"
    /\ generator # "None"
    /\ MentionsClearContext(Input(q).prompt)
\* The turns a step has added to the history of session k.
AddedTurns(k) ==
    Elements(HistoryOf(conversation_contexts', k))
        \ Elements(HistoryOf(conversation_contexts, k))

\* C17, as claimed: a reset processed while a streaming generation on its key
\* is in progress discards that generation: the history gains no turn from a
\* request that started before the reset, so no history ever contains an
\* assistant turn whose own user turn a reset removed.
C17_ResetDiscardsGeneration ==
    \A k \in DOMAIN conversation_contexts :
        OrphanTurns(conversation_contexts[k]) = {}

\* C17, amended: a reset empties the history of its key and leaves every
\* generation in progress as it is: nothing is cancelled.  After the reset the
\* history gains no user turn from a request that started before it (a user
\* turn is added only by the first step of its request), but a streaming
\* generation in progress still adds its assistant turn when the engine's
\* sequence ends.  An assistant turn without its own user turn is therefore
\* possible, for streaming requests only, and only when a request on the same
\* key that mentions "clear context" was handled after the generation began.
C17_ResetLeavesGenerationRunning ==
    /\ [][\A q \in Requests :
            ResetStep(q) =>
                /\ ZeroTurns(conversation_contexts', SessionOf(q))
                /\ \A r \in Requests \ {q} :
                       /\ pc'[r] = pc[r]
                       /\ sent'[r] = sent[r]
                       /\ full_response'[r] = full_response[r]
                       /\ produced'[r] = produced[r]]_vars
    /\ [][\A k \in DOMAIN conversation_contexts' :
            \A t \in AddedTurns(k) :
                /\ t.req \in Requests /\ SessionOf(t.req) = k
                /\ t.role = "user" => pc[t.req] = "start"
                /\ t.role = "assistant" =>
                       \/ pc[t.req] = "start"
                       \/ IsStream(t.req) /\ pc[t.req] = "sleep"]_vars
    /\ [](\A k \in DOMAIN conversation_contexts :
            \A i \in OrphanTurns(conversation_contexts[k]) :
                LET r == conversation_contexts[k][i].req
                IN  /\ IsStream(r)
                    /\ Len(produced[r]) >= 1
                    /\ \E q \in Requests \ {r} :
                           /\ SessionOf(q) = k /\ Handled(q)
                           /\ MentionsClearContext(Input(q).prompt))

C17_Witness ==
    \E r \in Requests :
        /\ IsStream(r) /\ pc[r] = "y_done"
        /\ LET history == HistoryOf(conversation_contexts, SessionOf(r))
           IN  /\ OrphanTurns(history) # {}
               /\ history = <<OwnAssistantTurn(r, TrimBoth(Flatten(produced[r])))>>

\* A turn a sync request appended: a sync request of the model, or one of the
\* earlier sync exchanges a history starts with.
BySync(turn) == turn.req \notin Requests \/ IsSync(turn.req)
IsUserTurnOf(turn, req) == turn.role = "user" /\ turn.req = req
IsAssistantTurnOf(turn, req) == turn.role = "assistant" /\ turn.req = req
AllHistories == {conversation_contexts[k] : k \in DOMAIN conversation_contexts}

\* C18, as claimed: in every reachable history the user turn and the
\* assistant turn of a successful sync request are adjacent.
C18_SyncTurnsAdjacent ==
    \A history \in AllHistories :
        \A i \in DOMAIN history :
            history[i].role = "assistant" /\ BySync(history[i]) =>
                i > 1 /\ IsUserTurnOf(history[i - 1], history[i].req)

\* C18, amended: a sync request appends its user turn and its assistant turn
\* in one step, which no step of another request can split; so in every
\* history the assistant turn of a sync request directly follows the user turn
\* of that request, also while streaming requests on the same key are in
\* progress, except when it is the oldest turn of a full history: then its
\* user turn has been evicted.
C18_SyncTurnsAdjacentUntilEvicted ==
    /\ [](\A history \in AllHistories :
            \A i \in DOMAIN history :
                history[i].role = "assistant" /\ BySync(history[i]) =>
                    \/ i > 1 /\ IsUserTurnOf(history[i - 1], history[i].req)
                    \/ i = 1 /\ Len(history) = MAX_CONTEXT_LENGTH)
    /\ [][\A r \in Requests :
            SyncSucceeded(r)' /\ ~SyncSucceeded(r) =>
                LET history == HistoryOf(conversation_contexts', SessionOf(r))
                    n == Len(history)
                IN  /\ pc[r] = "start" /\ pc'[r] = "finished"
                    /\ TurnsOf(r) = {}
                    /\ n >= 2
                    /\ IsUserTurnOf(history[n - 1], r)
                    /\ IsAssistantTurnOf(history[n], r)]_vars

C18_Witness ==
    \E r, q \in Requests :
        /\ SyncSucceeded(r) /\ IsStream(q) /\ pc[q] = "y_done"
        /\ SessionOf(r) = SessionOf(q)
        /\ LET history == HistoryOf(conversation_contexts, SessionOf(r))
               n == Len(history)
           IN  /\ n = MAX_CONTEXT_LENGTH
               /\ IsAssistantTurnOf(history[1], 0 - 2)
               /\ IsUserTurnOf(history[n - 3], q)
               /\ IsUserTurnOf(history[n - 2], r)
               /\ IsAssistantTurnOf(history[n - 1], r)
               /\ IsAssistantTurnOf(history[n], q)

\* The step in which the handler of request r runs while the engine is
\* unavailable.
UnavailableStep(r) == generator = "None" /\ pc[r] = "start" /\ pc'[r] # "start"

\* C19: a request handled while the engine is unavailable leaves the whole
\* session store as it was: no session is created, no turn is appended and no
\* session is reset, by the streaming and by the sync controller, whatever
\* the text of the request (a text that mentions "clear context" included);
\* the request records no turn and calls no engine.
C19_UnavailableLeavesStore ==
    /\ [][\A r \in Requests :
            UnavailableStep(r) =>
                /\ conversation_contexts' = conversation_contexts
                /\ DOMAIN conversation_contexts' = DOMAIN conversation_contexts
                /\ engine_calls'[r] = <<>>]_vars
    /\ [][generator = "None" => conversation_contexts' = conversation_contexts]_vars
    /\ [](generator = "None" =>
            /\ conversation_contexts = EmptyContexts
            /\ \A r \in Requests : TurnsOf(r) = {})

C19_Witness ==
    /\ generator = "None"
    /\ conversation_contexts = EmptyContexts
    /\ \E r, q \in Requests :
          /\ IsStream(r) /\ pc[r] = "finished" /\ MentionsClearContext(Input(r).prompt)
          /\ SessionOf(r) # DEFAULT_SESSION_ID
          /\ IsSync(q) /\ pc[q] = "finished" /\ ~MentionsClearContext(Input(q).prompt)
          /\ SessionOf(q) = DEFAULT_SESSION_ID
====
